---- MODULE Spec2Model ----
(***************************************************************************)
(* A model of gruvboxer (src/src/main.rs): palette harmonization of an     *)
(* RGB image in Lab space, followed by style-specific post-effects.        *)
(*                                                                         *)
(* Numbers.  An f32 is modelled as a fixed-point number with six decimal   *)
(* digits (FX units per 1.0) together with the IEEE non-finite kinds the   *)
(* code can produce: a float is [k |-> "fin", v |-> n], or one of PosInf,  *)
(* NegInf, NaN.  Lab coordinates are kept in hundredths (the precision of  *)
(* the palette table), strengths in thousandths, 8-bit channels as 0..255. *)
(*                                                                         *)
(* Arithmetic helpers are functions on Int, so that their arguments are    *)
(* values; Only({e : x \in {v}}) binds x to the value of v in e, as a      *)
(* `let` of the code does.                                                 *)
(***************************************************************************)
EXTENDS Integers, Naturals, Sequences, FiniteSets, TLC

FX == 1000 * 1000

Only(S) == CHOOSE x \in S : TRUE

Abs(n) == IF n < 0 THEN -n ELSE n
Sgn(n) == IF n < 0 THEN -1 ELSE IF n > 0 THEN 1 ELSE 0
Min2(a, b) == IF a <= b THEN a ELSE b
Max2(a, b) == IF a >= b THEN a ELSE b
ClampInt(n, lo, hi) == IF n < lo THEN lo ELSE IF n > hi THEN hi ELSE n

\* round(n / d) for d > 0, halves away from zero
RoundDiv[n \in Int, d \in Int] == Sgn(n) * ((2 * Abs(n) + d) \div (2 * d))

\* a * b / FX for non-negative a, b: the exact floor, without leaving 32 bits
MulU[a \in Int, b \in Int] ==
    (a \div 1000) * (b \div 1000)
        + ((a \div 1000) * (b % 1000) + (a % 1000) * (b \div 1000)
               + (((a % 1000) * (b % 1000)) \div 1000)) \div 1000

\* a * b / FX, signed (truncated toward zero)
FxMul[a \in Int, b \in Int] == Sgn(a) * Sgn(b) * MulU[Abs(a), Abs(b)]

\* a * FX / b for a >= 0 and 0 < b < 2 * FX: the exact floor
DivU[a \in Int, b \in Int] ==
    (a \div b) * FX + (((a % b) * 1000) \div b) * 1000
        + (((((a % b) * 1000) % b) * 1000) \div b)

\* a / b in fixed point, signed, b # 0
FxDiv[a \in Int, b \in Int] == Sgn(a) * Sgn(b) * DivU[Abs(a), Abs(b)]

(***************************************************************************)
(* f32 values with their non-finite kinds                                  *)
(***************************************************************************)
Fin(n) == [k |-> "fin", v |-> n]
NaN == [k |-> "nan", v |-> 0]
PosInf == [k |-> "inf", v |-> 1]
NegInf == [k |-> "inf", v |-> -1]
Floats == [k : {"fin", "inf", "nan"}, v : Int]
IsFinite(x) == x.k = "fin"
Inf(s) == IF s < 0 THEN NegInf ELSE PosInf

\* x * y where finite x, y are fixed-point numbers of scale FX
FMul[x \in Floats, y \in Floats] ==
    IF x.k = "nan" \/ y.k = "nan" THEN NaN
    ELSE IF x.k = "inf" \/ y.k = "inf"
         THEN IF x.v = 0 \/ y.v = 0 THEN NaN ELSE Inf(Sgn(x.v) * Sgn(y.v))
         ELSE Fin(FxMul[x.v, y.v])

FAdd[x \in Floats, y \in Floats] ==
    IF x.k = "nan" \/ y.k = "nan" THEN NaN
    ELSE IF x.k = "inf" /\ y.k = "inf"
         THEN IF x.v = y.v THEN x ELSE NaN
         ELSE IF x.k = "inf" THEN x
         ELSE IF y.k = "inf" THEN y
         ELSE Fin(x.v + y.v)

FNeg[x \in Floats] == IF x.k = "nan" THEN NaN ELSE [k |-> x.k, v |-> -x.v]
FSub[x \in Floats, y \in Floats] == FAdd[x, FNeg[y]]

\* f32::recip: 1/0 is +inf
FRecip[x \in Floats] ==
    IF x.k = "nan" THEN NaN
    ELSE IF x.k = "inf" THEN Fin(0)
    ELSE IF x.v = 0 THEN PosInf
    ELSE Fin(FxDiv[FX, x.v])

(***************************************************************************)
(* exp(-x) for a fixed-point x >= 0: halve the argument until it is at     *)
(* most 1/8, sum the Taylor series there, square back.                     *)
(***************************************************************************)
ExpCutoff == 14 * FX

\* y^n / FX^(n-1)
PowU[y \in Int, n \in Int] == IF n = 1 THEN y ELSE MulU[PowU[y, n - 1], y]

ExpSmall[y \in Int] ==
    FX - y + PowU[y, 2] \div 2 - PowU[y, 3] \div 6 + PowU[y, 4] \div 24
        - PowU[y, 5] \div 120 + PowU[y, 6] \div 720

SquareU[h \in Int] == MulU[h, h]

ExpNeg[x \in Int] ==
    IF x = 0 THEN FX
    ELSE IF x >= ExpCutoff THEN 0
    ELSE IF x <= FX \div 8 THEN ExpSmall[x]
    ELSE IF x % 2 = 0 THEN SquareU[ExpNeg[x \div 2]]
    ELSE MulU[SquareU[ExpNeg[x \div 2]], ExpSmall[1]]

(***************************************************************************)
(* The palette, in hundredths of a Lab unit                                *)
(***************************************************************************)
Lab(l, a, b) == [l |-> l, a |-> a, b |-> b]

GRUVBOX_LAB ==
    << Lab(2977, 16, 20),        \* background
       Lab(8697, -86, 992),      \* foreground
       Lab(4436, 5540, 3713),    \* red
       Lab(5683, -2199, 5627),   \* green
       Lab(6517, 1015, 5742),    \* yellow
       Lab(4959, -926, -2491),   \* blue
       Lab(5170, 3404, -1460),   \* purple
       Lab(5869, -2830, 1525),   \* aqua
       Lab(5333, 3977, 5278) >>  \* orange

PaletteIdx == 1..Len(GRUVBOX_LAB)

\* squared CIE76 distance (the square of delta_e), in (1/100)^2 units
DistSq(c, p) ==
    (c.l - p.l) * (c.l - p.l) + (c.a - p.a) * (c.a - p.a) + (c.b - p.b) * (c.b - p.b)

ISqrtFrom[n \in Int, r \in Int] ==
    IF (r + n \div r) \div 2 >= r THEN r ELSE ISqrtFrom[n, (r + n \div r) \div 2]

\* floor(sqrt(n))
ISqrt[n \in Int] == IF n < 2 THEN n ELSE ISqrtFrom[n, n \div 2 + 1]

\* floor(10 * sqrt(d)), given r = floor(sqrt(d)): 10 r + the number of digits
\* j in 1..9 with (10 r + j)^2 <= 100 d
KeyFromRoot[d \in Int, r \in Int] ==
    10 * r + Cardinality({j \in 1..9 : 20 * r * j + j * j <= 100 * (d - r * r)})

\* (delta_e * 1000.0) as u32, for a squared distance d in (1/100)^2 units
DeltaEKey[d \in Int] == KeyFromRoot[d, ISqrt[d]]

KeyOf(c, i) == DeltaEKey[DistSq(c, GRUVBOX_LAB[i])]

\* Iterator::min_by_key from entry i on, with the best entry and key so far:
\* a later entry replaces the best one only when its key is smaller
MinByKeyFrom(c, i, best, bestKey) ==
    Only({ IF k < bestKey THEN <<i, k>> ELSE <<best, bestKey>> : k \in {KeyOf(c, i)} })

RECURSIVE MinByKey(_, _, _)
MinByKey(c, i, acc) ==
    IF i > Len(GRUVBOX_LAB) THEN acc[1]
    ELSE Only({ MinByKey(c, i + 1, nxt) : nxt \in {MinByKeyFrom(c, i, acc[1], acc[2])} })

\* the last palette entry whatever the colour (not what the code does)
LastIdx(c) == Len(GRUVBOX_LAB)

\* index of the palette entry harmonize_color selects for c (lines 97-99)
NearestIdx(c) == Only({ MinByKey(c, 2, <<1, k1>>) : k1 \in {KeyOf(c, 1)} })

(***************************************************************************)
(* harmonize_color                                                         *)
(***************************************************************************)
LWeightOrig == 98
LWeightTarget == 2

\* a Lab coordinate in hundredths as a float
OfCenti(c) == Fin(c * 10000)

\* line 103: mix = strength * (1.0 - (-4.0 * d).exp()).recip(), d in FX units
MixFactor[d \in Int, s \in Int] ==
    FMul[Fin(s * 1000), FRecip[Fin(FX - ExpNeg[4 * d])]]

\* line 104: orig * (1.0 - mix) + tgt * mix
Mixed[orig \in Int, tgt \in Int, mix \in Floats] ==
    FAdd[FMul[OfCenti(orig), FSub[Fin(FX), mix]], FMul[OfCenti(tgt), mix]]

\* a float in FX units to a float in hundredths of a Lab unit
InCenti[x \in Floats] == IF IsFinite(x) THEN Fin(RoundDiv[x.v, 10000]) ELSE x

\* blend_channel(orig, tgt, strength): orig, tgt in hundredths, strength in
\* thousandths; the result is a float whose value is in hundredths
blend_channel(orig, tgt, s) ==
    InCenti[Mixed[orig, tgt, MixFactor[Abs(orig - tgt) * 10000, s]]]

\* the blend toward a given target (lines 107-111)
BlendToward(original, target, s) ==
    [l |-> RoundDiv[original.l * LWeightOrig + target.l * LWeightTarget, 100],
     a |-> blend_channel(original.a, target.a, s),
     b |-> blend_channel(original.b, target.b, s)]

\* harmonize_color(original, strength): l in hundredths, a and b floats in hundredths
harmonize_color(original, s) ==
    Only({ BlendToward(original, target, s) :
               target \in {GRUVBOX_LAB[NearestIdx(original)]} })

(***************************************************************************)
(* Colour conversion (palette crate): sRGB <-> linear RGB <-> XYZ <-> Lab  *)
(* under D65, in fixed point.  Roots are taken by Newton's iteration from  *)
(* above.                                                                  *)
(***************************************************************************)
SqrtStep[x \in Int, r \in Int] == (r + DivU[x, r]) \div 2
SqrtFrom[x \in Int, r \in Int] ==
    IF SqrtStep[x, r] >= r THEN r ELSE SqrtFrom[x, SqrtStep[x, r]]

\* sqrt(x) for 0 <= x < 2
FxSqrt[x \in Int] == IF x = 0 THEN 0 ELSE SqrtFrom[x, Max2(FX, x)]

CbrtStep[x \in Int, r \in Int] == (2 * r + DivU[DivU[x, r], r]) \div 3
CbrtFrom[x \in Int, r \in Int] ==
    IF CbrtStep[x, r] >= r THEN r ELSE CbrtFrom[x, CbrtStep[x, r]]

\* cbrt(x) for 0 <= x < 2
FxCbrt[x \in Int] == IF x = 0 THEN 0 ELSE CbrtFrom[x, Max2(FX, x)]

Root5Step[x \in Int, r \in Int] == (4 * r + DivU[DivU[DivU[DivU[x, r], r], r], r]) \div 5
Root5From[x \in Int, r \in Int] ==
    IF Root5Step[x, r] >= r THEN r ELSE Root5From[x, Root5Step[x, r]]

\* x^(1/5) for 0 <= x <= 1
FxRoot5[x \in Int] == IF x = 0 THEN 0 ELSE Root5From[x, FX]

\* x^2.4 = (x^(1/5))^12
Pow24[x \in Int] == PowU[FxRoot5[x], 12]

\* x^(1/2.4) = (x^(1/12))^5
PowInv24[x \in Int] == PowU[FxCbrt[FxSqrt[FxSqrt[x]]], 5]

\* sRGB transfer function: an encoded channel in 0..FX to linear light
IntoLinear[c \in Int] ==
    IF c <= 40450 THEN (c * 100) \div 1292
    ELSE Pow24[((c + 55000) * 1000) \div 1055]

\* linear light to the encoded channel, clamped to [0, 1] as from_color does
FromLinearClamped[x \in Int] ==
    IF x <= 0 THEN 0
    ELSE IF x >= FX THEN FX
    ELSE IF x <= 3130 THEN (x * 1292) \div 100
    ELSE ClampInt(MulU[1055000, PowInv24[x]] - 55000, 0, FX)

\* D65 reference white
WhiteX == 950470
WhiteZ == 1088830

\* (6/29)^3 and 6/29
LabEpsilon == 8856
LabDelta == 206897

\* Xyz -> Lab: cbrt(t), or 841/108 t + 4/29 up to (6/29)^3
LabF[t \in Int] ==
    IF t > LabEpsilon THEN FxCbrt[t] ELSE MulU[7787037, t] + 137931

\* Lab -> Xyz: t^3, or 108/841 (t - 4/29) up to 6/29
LabFInv[t \in Int] ==
    IF t > LabDelta THEN PowU[t, 3] ELSE FxMul[128419, t - 137931]

LabOfF[fx \in Int, fy \in Int, fz \in Int] ==
    Lab(ClampInt(RoundDiv[116 * fy - 16 * FX, 10000], 0, 10000),
        ClampInt(RoundDiv[500 * (fx - fy), 10000], -12800, 12700),
        ClampInt(RoundDiv[200 * (fy - fz), 10000], -12800, 12700))

LabOfXyz[x \in Int, y \in Int, z \in Int] ==
    LabOfF[LabF[DivU[x, WhiteX]], LabF[y], LabF[DivU[z, WhiteZ]]]

LabOfLinear[r \in Int, g \in Int, b \in Int] ==
    LabOfXyz[MulU[412456, r] + MulU[357576, g] + MulU[180438, b],
             MulU[212673, r] + MulU[715152, g] + MulU[72175, b],
             MulU[19334, r] + MulU[119192, g] + MulU[950304, b]]

\* Lab::from_color(Srgb::new(r/255, g/255, b/255)): an 8-bit pixel to Lab hundredths
RgbToLab(p) ==
    LabOfLinear[IntoLinear[(p[1] * FX) \div 255],
                IntoLinear[(p[2] * FX) \div 255],
                IntoLinear[(p[3] * FX) \div 255]]

RgbOfXyz[x \in Int, y \in Int, z \in Int] ==
    << Fin(FromLinearClamped[FxMul[3240454, x] - FxMul[1537139, y] - FxMul[498531, z]]),
       Fin(FromLinearClamped[FxMul[1876011, y] + FxMul[41556, z] - FxMul[969266, x]]),
       Fin(FromLinearClamped[FxMul[55643, x] - FxMul[204026, y] + FxMul[1057225, z]]) >>

RgbOfF[fx \in Int, fy \in Int, fz \in Int] ==
    RgbOfXyz[FxMul[WhiteX, LabFInv[fx]], LabFInv[fy], FxMul[WhiteZ, LabFInv[fz]]]

\* Srgb::from_color(lab).into_format::<f32>(): Lab (l in hundredths, a and b
\* floats in hundredths) to encoded channels in 0..FX, clamped to [0, 1]; a NaN
\* coordinate makes every channel NaN
LabToRgb(c) ==
    IF ~IsFinite(c.a) \/ ~IsFinite(c.b) THEN <<NaN, NaN, NaN>>
    ELSE RgbOfF[((c.l + 1600) * 10000) \div 116 + c.a.v * 20,
                ((c.l + 1600) * 10000) \div 116,
                ((c.l + 1600) * 10000) \div 116 - c.b.v * 50]

(***************************************************************************)
(* Images.  A buffer is [w, h, px] with px a function on 0..w*h-1 in       *)
(* row-major order (the order of enumerate_pixels_mut); an RgbImage holds  *)
(* triples of 0..255, a GrayImage single values.                           *)
(***************************************************************************)
NumPixels(im) == im.w * im.h
Pixels(im) == 0..(NumPixels(im) - 1)
XOf(im, i) == i % im.w
YOf(im, i) == i \div im.w
At(im, x, y) == im.px[y * im.w + x]
InBounds(im, x, y) == x >= 0 /\ x < im.w /\ y >= 0 /\ y < im.h

NoMask == [w |-> 0, h |-> 0, px |-> <<>>]

contrast_boost == 1080000

\* f32::clamp(0.0, 1.0): NaN stays NaN
FClamp01[x \in Floats] ==
    IF x.k = "nan" THEN NaN
    ELSE IF x.k = "inf" THEN (IF x.v < 0 THEN Fin(0) ELSE Fin(FX))
    ELSE Fin(ClampInt(x.v, 0, FX))

\* (x * 255.0) as u8: the cast truncates, saturates, and sends NaN to 0
AsU8[x \in Floats] ==
    IF x.k = "nan" THEN 0
    ELSE IF x.k = "inf" THEN (IF x.v < 0 THEN 0 ELSE 255)
    ELSE ClampInt((x.v * 255) \div FX, 0, 255)

\* the stored value without the clamp and with a wrapping cast (not what the code does)
StoreChannelWrapping(x) ==
    IF ~IsFinite(x) THEN 0
    ELSE ((MulU[Max2(0, x.v), contrast_boost] * 255) \div FX) % 256

\* lines 86-92: (channel * contrast_boost).clamp(0.0, 1.0), then (.. * 255.0) as u8
StoreChannel(x) == AsU8[FClamp01[FMul[x, Fin(contrast_boost)]]]

\* edge-aware lightness with the weights exchanged (not what the code does)
EdgeLightnessSwapped(ol, hl, m) == RoundDiv[ol * m + hl * (255 - m), 255]

\* lines 79-80: edge_strength = m / 255; l = original.l * (1 - e) + harmonized.l * e
EdgeLightness(ol, hl, m) == RoundDiv[ol * (255 - m) + hl * m, 255]

\* lines 83-92 for the final Lab colour
LocalsFromFinal(lab, k, h, fin) ==
    Only({ [original |-> lab,
            matched |-> k,
            harmonized |-> h,
            final |-> fin,
            result_rgb |-> rgb,
            out |-> <<StoreChannel(rgb[1]), StoreChannel(rgb[2]), StoreChannel(rgb[3])>>] :
               rgb \in {LabToRgb(fin)} })

\* lines 77-81 for the colour h returned by harmonize_color
LocalsFromHarmonized(lab, k, h, m) ==
    Only({ LocalsFromFinal(lab, k, h, fin) :
               fin \in {IF m < 0 THEN h
                        ELSE [h EXCEPT !.l = EdgeLightness(lab.l, h.l, m)]} })

\* line 75 for the pixel's Lab colour and the palette entry k nearest to it
LocalsFromLab(lab, k, s, m) ==
    Only({ LocalsFromHarmonized(lab, k, h, m) :
               h \in {BlendToward(lab, GRUVBOX_LAB[k], s)} })

\* the body of the loop of enhanced_harmonization for a pixel p, the clamped
\* strength s and the mask value m (-1 when there is no mask): its locals
PixelLocals(p, s, m) ==
    Only({ Only({ LocalsFromLab(lab, k, s, m) : k \in {NearestIdx(lab)} }) :
               lab \in {RgbToLab(p)} })

\* strength.clamp(0.0, 1.0), in thousandths
ClampStrength(s) == ClampInt(s, 0, 1000)

VARIABLES
    pc,          \* control point
    style,       \* the Style of apply_style (name, Mosaic block size), Direct for a direct call
    strength,    \* the strength argument (thousandths)
    img,         \* the buffer, mutated in place
    img0,        \* the buffer as it was passed in
    mask,        \* the edge mask passed to enhanced_harmonization, or NoMask
    visited,     \* pixels the harmonization loop has handled
    writes,      \* how often each pixel has been written by the loop
    cur,         \* index of the pixel the loop handled last, -1 before
    original,    \* local original_lab / argument of harmonize_color
    matched,     \* index of the palette entry chosen for it
    harmonized,  \* value returned by harmonize_color
    final,       \* harmonized, after the edge-aware lightness adjustment
    result_rgb,  \* Srgb::from_color(harmonized), before contrast compensation
    log          \* stages of apply_style run so far

vars == <<pc, style, strength, img, img0, mask, visited, writes, cur,
          original, matched, harmonized, final, result_rgb, log>>

imgVars == <<style, img, img0, mask, visited, writes, cur, final, result_rgb, log>>

NoLab == [l |-> 0, a |-> Fin(0), b |-> Fin(0)]
NoRgb == <<Fin(0), Fin(0), Fin(0)>>
NoImage == [w |-> 0, h |-> 0, px |-> <<>>]
Direct == [name |-> "Direct", size |-> 0]

(***************************************************************************)
(* harmonize_color on its own, over a grid of Lab colours around the       *)
(* palette entries and around the midpoints of pairs of entries            *)
(***************************************************************************)
Radius == 2
Strengths == {0, 250, 500, 1000}

\* chroma offsets around a colour, a tenth of a unit apart
Offsets == {10 * k : k \in (-Radius)..Radius}

NearInputs ==
    {Lab(GRUVBOX_LAB[i].l, GRUVBOX_LAB[i].a + da, GRUVBOX_LAB[i].b + db) :
        i \in PaletteIdx, da \in Offsets, db \in Offsets}

Mid(p, q) == Lab((p.l + q.l) \div 2, (p.a + q.a) \div 2, (p.b + q.b) \div 2)

MidInputs ==
    {Lab(Mid(GRUVBOX_LAB[i], GRUVBOX_LAB[j]).l,
         Mid(GRUVBOX_LAB[i], GRUVBOX_LAB[j]).a + da,
         Mid(GRUVBOX_LAB[i], GRUVBOX_LAB[j]).b) :
        i \in PaletteIdx, j \in PaletteIdx, da \in (-1)..1}

LabInputs == NearInputs \union MidInputs

InitBlend ==
    /\ pc = "call"
    /\ original \in LabInputs
    /\ strength \in Strengths
    /\ harmonized = NoLab
    /\ matched = 0
    /\ style = Direct
    /\ img = NoImage /\ img0 = NoImage /\ mask = NoMask
    /\ visited = {} /\ writes = <<>> /\ cur = -1
    /\ final = NoLab /\ result_rgb = NoRgb /\ log = <<>>

HarmonizeColor ==
    /\ pc = "call"
    /\ harmonized' = harmonize_color(original, strength)
    /\ matched' = NearestIdx(original)
    /\ pc' = "ret"
    /\ UNCHANGED <<original, strength>>
    /\ UNCHANGED imgVars

NextBlend == HarmonizeColor

SpecBlend == InitBlend /\ [][NextBlend]_vars

(***************************************************************************)
(* enhanced_harmonization                                                  *)
(***************************************************************************)
Width == 2
MaxHeight == 2

InputColors ==
    << <<0, 0, 0>>, <<255, 255, 255>>, <<128, 128, 128>>,
       <<255, 0, 0>>, <<10, 200, 30>> >>

NumColors == Len(InputColors)

\* test images: uniform ones (stride 0) and ones running through InputColors
InputImages ==
    {[w |-> Width, h |-> hh,
      px |-> [i \in 0..(Width * hh - 1) |->
                 InputColors[((off + stride * i) % NumColors) + 1]]] :
        hh \in 1..MaxHeight, off \in 0..(NumColors - 1), stride \in {0, 1}}

StrengthArgs == {0, 500, 1000, 1500}
MaskValues == {0, 128, 255}

UniformGray(ww, hh, v) == [w |-> ww, h |-> hh, px |-> [i \in 0..(ww * hh - 1) |-> v]]

\* masks of the buffer's size, and narrower, wider and taller ones
MasksFor(im) ==
    {UniformGray(ww, im.h, v) : ww \in {im.w - 1, im.w, im.w + 1}, v \in MaskValues}
        \union {UniformGray(im.w, im.h + 1, v) : v \in MaskValues}

SameSize(m, im) == m.w = im.w /\ m.h = im.h

\* the strength enhanced_harmonization is called with: strength * 0.8 for Synthwave
StyleStrength == IF style.name = "Synthwave" THEN (strength * 8) \div 10 ELSE strength

\* an iteration that converts the following pixel's value instead of the
\* pixel's own (not what the code does)
LoopBodyNeighbour(i) ==
    \E loc \in {PixelLocals(img.px[(i + 1) % NumPixels(img)],
                            ClampStrength(StyleStrength),
                            IF mask = NoMask THEN -1 ELSE At(mask, XOf(img, i), YOf(img, i)))} :
        /\ original' = loc.original
        /\ matched' = loc.matched
        /\ harmonized' = loc.harmonized
        /\ cur' = i
        /\ final' = loc.final
        /\ result_rgb' = loc.result_rgb
        /\ img' = [img EXCEPT !.px[i] = loc.out]
        /\ visited' = visited \union {i}
        /\ writes' = [writes EXCEPT ![i] = @ + 1]
        /\ UNCHANGED <<pc, style, strength, img0, mask, log>>

\* one iteration of the loop, for pixel i (lines 66-93); mask.get_pixel panics
\* when (x, y) lies outside the mask
LoopBody(i) ==
    LET x == XOf(img, i)
        y == YOf(img, i)
        outside == mask # NoMask /\ ~InBounds(mask, x, y)
        m == IF mask = NoMask \/ outside THEN -1 ELSE At(mask, x, y)
    IN  \E loc \in {PixelLocals(img.px[i], ClampStrength(StyleStrength), m)} :
        /\ original' = loc.original
        /\ matched' = loc.matched
        /\ harmonized' = loc.harmonized
        /\ cur' = i
        /\ IF outside
           THEN /\ pc' = "panic"
                /\ UNCHANGED <<img, visited, writes, final, result_rgb>>
           ELSE /\ final' = loc.final
                /\ result_rgb' = loc.result_rgb
                /\ img' = [img EXCEPT !.px[i] = loc.out]
                /\ visited' = visited \union {i}
                /\ writes' = [writes EXCEPT ![i] = @ + 1]
                /\ pc' = pc
        /\ UNCHANGED <<style, strength, img0, mask, log>>

\* enumerate_pixels_mut: the next pixel in row-major order
HarmonizePixel ==
    /\ pc = "harmonize"
    /\ visited # Pixels(img)
    /\ LoopBody(CHOOSE j \in Pixels(img) \ visited :
                    \A k \in Pixels(img) \ visited : j <= k)

\* the loop is over: enhanced_harmonization returns
FinishHarmonization ==
    /\ pc = "harmonize"
    /\ visited = Pixels(img)
    /\ pc' = "harmonized"
    /\ UNCHANGED <<style, strength, img, img0, mask, visited, writes, cur,
                   original, matched, harmonized, final, result_rgb, log>>

\* a direct call enhanced_harmonization(img, strength, edge_mask)
InitCall ==
    /\ pc = "harmonize"
    /\ style = Direct
    /\ strength \in StrengthArgs
    /\ img \in InputImages
    /\ img0 = img
    /\ mask \in {NoMask} \union MasksFor(img)
    /\ visited = {}
    /\ writes = [i \in Pixels(img) |-> 0]
    /\ cur = -1
    /\ original = NoLab /\ matched = 0 /\ harmonized = NoLab
    /\ final = NoLab /\ result_rgb = NoRgb
    /\ log = <<>>

NextCall == HarmonizePixel \/ FinishHarmonization

SpecCall == InitCall /\ [][NextCall]_vars

\* largest buffer whose visiting orders are all explored
MaxAnyOrderPixels == 4

\* the same call with the pixels visited in any order (the row-major order of
\* the code is one of them), for masks of the buffer's size
InitAnyOrder ==
    /\ InitCall
    /\ mask = NoMask \/ SameSize(mask, img)
    /\ NumPixels(img) <= MaxAnyOrderPixels

HarmonizeAnyPixel ==
    /\ pc = "harmonize"
    /\ \E i \in Pixels(img) \ visited : LoopBody(i)

NextAnyOrder == HarmonizeAnyPixel \/ FinishHarmonization

SpecAnyOrder == InitAnyOrder /\ [][NextAnyOrder]_vars

(***************************************************************************)
(* apply_style: edge mask, harmonization, post-effects                     *)
(***************************************************************************)

SatSub(v, d) == Max2(0, v - d)
SatAdd(v, d) == Min2(255, v + d)
ClampU8(v) == ClampInt(v, 0, 255)

\* sum of f[0..n]
RECURSIVE SumUpTo(_, _)
SumUpTo(f, n) == IF n < 0 THEN 0 ELSE f[n] + SumUpTo(f, n - 1)

\* exp(-d2 / (2 sigma^2)) in thousandths, sigma given in tenths
Gauss(d2, sigma10) == ExpNeg[d2 * ((50 * FX) \div (sigma10 * sigma10))] \div 1000

\* imageops::colorops::grayscale (lines 31, 36): the luma of each pixel
Luma(p) == (2126 * p[1] + 7152 * p[2] + 722 * p[3]) \div 10000

grayscale(im) == [w |-> im.w, h |-> im.h, px |-> [i \in Pixels(im) |-> Luma(im.px[i])]]

\* weight (thousandths) of the window pixel at offset (dx, dy) from (x, y),
\* coordinates clamped to the image, and the value it weighs
BilateralSample(g, x, y, dx, dy, sc10, ss10) ==
    Only({ [v |-> v,
            wt |-> (Gauss((v - At(g, x, y)) * (v - At(g, x, y)), sc10)
                       * Gauss(dx * dx + dy * dy, ss10)) \div 1000] :
               v \in {At(g, ClampInt(x + dx, 0, g.w - 1), ClampInt(y + dy, 0, g.h - 1))} })

\* the samples of the window around (x, y), numbered row by row
BilateralWindow(g, x, y, window, sc10, ss10) ==
    [k \in 0..(window * window - 1) |->
        BilateralSample(g, x, y, (k % window) - (window - 1) \div 2,
                        (k \div window) - (window - 1) \div 2, sc10, ss10)]

BilateralAt(g, x, y, window, sc10, ss10) ==
    Only({ RoundDiv[SumUpTo([k \in DOMAIN smp |-> smp[k].wt * smp[k].v], window * window - 1),
                    SumUpTo([k \in DOMAIN smp |-> smp[k].wt], window * window - 1)] :
               smp \in {[k \in 0..(window * window - 1) |->
                            BilateralWindow(g, x, y, window, sc10, ss10)[k]]} })

\* imageproc::filter::bilateral_filter(gray, window_size, sigma_color, sigma_spatial)
bilateral_filter(g, window, sc10, ss10) ==
    [w |-> g.w, h |-> g.h,
     px |-> [i \in Pixels(g) |-> BilateralAt(g, XOf(g, i), YOf(g, i), window, sc10, ss10)]]

\* lines 31-32 and 36-37: the edge mask of a buffer for Gruvbox and for Retro
EdgeMask(im, st) ==
    IF st.name = "Gruvbox" THEN bilateral_filter(grayscale(im), 5, 250, 20)
    ELSE bilateral_filter(grayscale(im), 3, 150, 15)

\* add_vhs_effect (lines 114-132), for buffers at least 2 wide: the buffer
\* shifted up by one row is laid over the buffer shifted left by two columns,
\* then even rows are darkened
VhsShifted(im, x, y) ==
    IF y < im.h - 1 THEN At(im, x, y + 1)
    ELSE IF x < im.w - 2 THEN At(im, x + 2, y)
    ELSE At(im, x, y)

Scanline(p, y) ==
    IF y % 2 = 0 THEN <<SatSub(p[1], 20), SatSub(p[2], 20), SatSub(p[3], 20)>> ELSE p

add_vhs_effect(im) ==
    [im EXCEPT !.px = [i \in Pixels(im) |->
                          Scanline(VhsShifted(im, XOf(im, i), YOf(im, i)), YOf(im, i))]]

\* add_film_grain (lines 134-142) for the noise drawn for each pixel
AddNoise(p, n) == <<ClampU8(p[1] + n), ClampU8(p[2] + n), ClampU8(p[3] + n)>>

add_film_grain(im, noise) ==
    [im EXCEPT !.px = [i \in Pixels(im) |-> AddNoise(im.px[i], noise[i])]]

\* values of rng.gen_range(-intensity..intensity) with intensity 12 (line 40)
GrainNoise == {-12, 11}

\* apply_gradient_overlay (lines 144-153)
GradientPixel(p, y, h) ==
    <<SatAdd(p[1], ((255 * y) \div h) \div 2), p[2], SatAdd(p[3], ((255 * (h - y)) \div h) \div 2)>>

apply_gradient_overlay(im) ==
    [im EXCEPT !.px = [i \in Pixels(im) |-> GradientPixel(im.px[i], YOf(im, i), im.h)]]

\* boost_saturation (lines 155-171), factor in tenths: in HSL the lightness
\* l = (max + min) / 2 is kept and each channel moves to l + factor * (c - l)
Max3(p) == Max2(p[1], Max2(p[2], p[3]))
Min3(p) == Min2(p[1], Min2(p[2], p[3]))

BoostChannel(c, mx, mn, f10) == ClampU8((10 * (mx + mn) + f10 * (2 * c - mx - mn)) \div 20)

BoostPixel(p, f10) ==
    <<BoostChannel(p[1], Max3(p), Min3(p), f10),
      BoostChannel(p[2], Max3(p), Min3(p), f10),
      BoostChannel(p[3], Max3(p), Min3(p), f10)>>

boost_saturation(im, f10) ==
    [im EXCEPT !.px = [i \in Pixels(im) |-> BoostPixel(im.px[i], f10)]]

\* imageops::resize(.., FilterType::Nearest): an empty source gives a zeroed
\* image, a zero target dimension an empty one
NearestSrc(o, n, len) == Min2(((2 * o + 1) * len) \div (2 * n), len - 1)

resize(im, nw, nh) ==
    [w |-> nw, h |-> nh,
     px |-> [i \in 0..(nw * nh - 1) |->
                IF im.w = 0 \/ im.h = 0 THEN <<0, 0, 0>>
                ELSE At(im, NearestSrc(i % nw, nw, im.w), NearestSrc(i \div nw, nh, im.h))]]

\* pixelate (lines 173-182)
pixelate(im, block_size) ==
    resize(resize(im, im.w \div block_size, im.h \div block_size), im.w, im.h)

\* imageops::blur(img, 2.0): Gaussian weights over the pixels of the image
\* within 2 * sigma of (x, y), normalized
BlurWeight(im, x, y, j) ==
    IF Abs(XOf(im, j) - x) <= 4 /\ Abs(YOf(im, j) - y) <= 4
    THEN Gauss((XOf(im, j) - x) * (XOf(im, j) - x) + (YOf(im, j) - y) * (YOf(im, j) - y), 20)
    ELSE 0

BlurAt(im, x, y, c) ==
    RoundDiv[SumUpTo([j \in Pixels(im) |-> BlurWeight(im, x, y, j) * im.px[j][c]],
                     NumPixels(im) - 1),
             SumUpTo([j \in Pixels(im) |-> BlurWeight(im, x, y, j)], NumPixels(im) - 1)]

blur(im) ==
    [im EXCEPT !.px = [i \in Pixels(im) |->
                          <<BlurAt(im, XOf(im, i), YOf(im, i), 1),
                            BlurAt(im, XOf(im, i), YOf(im, i), 2),
                            BlurAt(im, XOf(im, i), YOf(im, i), 3)>>]]

\* apply_watercolor_effect (lines 184-199) for the blurred copy and the noise
\* drawn for each pixel
apply_watercolor_effect(im, blurred, noise) ==
    [im EXCEPT !.px = [i \in Pixels(im) |-> AddNoise(blurred.px[i], noise[i])]]

\* values of rng.gen_range(-10..10) (line 190)
WatercolorNoise == {-10, 9}

\* block sizes passed with Style::Mosaic (16 by main, line 218)
MosaicSizes == {2, 16}

Styles ==
    {[name |-> n, size |-> 0] : n \in {"Gruvbox", "Retro", "Synthwave", "Watercolor"}}
        \union {[name |-> "Mosaic", size |-> k] : k \in MosaicSizes}

StyleStrengths == {500, 1000}

\* the arms of the match with the film grain laid before the VHS shift
\* (not what the code does)
StagesGrainFirst(st) ==
    CASE st.name = "Gruvbox" -> <<"edge_mask", "enhanced_harmonization">>
      [] st.name = "Retro" ->
             <<"edge_mask", "enhanced_harmonization", "add_film_grain", "add_vhs_effect">>
      [] st.name = "Synthwave" ->
             <<"enhanced_harmonization", "apply_gradient_overlay", "boost_saturation">>
      [] st.name = "Mosaic" -> <<"enhanced_harmonization", "pixelate">>
      [] st.name = "Watercolor" -> <<"enhanced_harmonization", "apply_watercolor_effect">>

\* lines 29-55: what each arm of the match does, in order
Stages(st) ==
    CASE st.name = "Gruvbox" -> <<"edge_mask", "enhanced_harmonization">>
      [] st.name = "Retro" ->
             <<"edge_mask", "enhanced_harmonization", "add_vhs_effect", "add_film_grain">>
      [] st.name = "Synthwave" ->
             <<"enhanced_harmonization", "apply_gradient_overlay", "boost_saturation">>
      [] st.name = "Mosaic" -> <<"enhanced_harmonization", "pixelate">>
      [] st.name = "Watercolor" -> <<"enhanced_harmonization", "apply_watercolor_effect">>

\* the statement apply_style executes next
NextStage ==
    IF Len(log) < Len(Stages(style)) THEN Stages(style)[Len(log) + 1] ELSE "return"

Init ==
    /\ pc = "apply_style"
    /\ style \in Styles
    /\ strength \in StyleStrengths
    /\ img \in InputImages
    /\ img0 = img
    /\ mask = NoMask
    /\ visited = {}
    /\ writes = [i \in Pixels(img) |-> 0]
    /\ cur = -1
    /\ original = NoLab /\ matched = 0 /\ harmonized = NoLab
    /\ final = NoLab /\ result_rgb = NoRgb
    /\ log = <<>>

\* grayscale and bilateral_filter of the buffer (Gruvbox, Retro)
ComputeEdgeMask ==
    /\ pc = "apply_style"
    /\ NextStage = "edge_mask"
    /\ mask' = EdgeMask(img, style)
    /\ log' = Append(log, "edge_mask")
    /\ UNCHANGED <<pc, style, strength, img, img0, visited, writes, cur,
                   original, matched, harmonized, final, result_rgb>>

\* the call of enhanced_harmonization
CallHarmonization ==
    /\ pc = "apply_style"
    /\ NextStage = "enhanced_harmonization"
    /\ pc' = "harmonize"
    /\ log' = Append(log, "enhanced_harmonization")
    /\ UNCHANGED <<style, strength, img, img0, mask, visited, writes, cur,
                   original, matched, harmonized, final, result_rgb>>

\* enhanced_harmonization has returned and the post-effect name is next
AtEffect(name) == pc = "harmonized" /\ NextStage = name

\* a post-effect that gives the buffer out
PostEffect(name, out) ==
    /\ AtEffect(name)
    /\ img' = out
    /\ log' = Append(log, name)
    /\ UNCHANGED <<pc, style, strength, img0, mask, visited, writes, cur,
                   original, matched, harmonized, final, result_rgb>>

AddVhsEffect == PostEffect("add_vhs_effect", add_vhs_effect(img))

AddFilmGrain ==
    /\ AtEffect("add_film_grain")
    /\ \E noise \in [Pixels(img) -> GrainNoise] :
           PostEffect("add_film_grain", add_film_grain(img, noise))

ApplyGradientOverlay == PostEffect("apply_gradient_overlay", apply_gradient_overlay(img))

BoostSaturation == PostEffect("boost_saturation", boost_saturation(img, 15))

Pixelate == PostEffect("pixelate", pixelate(img, style.size))

ApplyWatercolorEffect ==
    /\ AtEffect("apply_watercolor_effect")
    /\ \E blurred \in {b \in {blur(img)} : b = b} :
           \E noise \in [Pixels(img) -> WatercolorNoise] :
               PostEffect("apply_watercolor_effect",
                          apply_watercolor_effect(img, blurred, noise))

Next ==
    \/ ComputeEdgeMask
    \/ CallHarmonization
    \/ HarmonizePixel
    \/ FinishHarmonization
    \/ AddVhsEffect
    \/ AddFilmGrain
    \/ ApplyGradientOverlay
    \/ BoostSaturation
    \/ Pixelate
    \/ ApplyWatercolorEffect

Spec == Init /\ [][Next]_vars

(***************************************************************************)
(* Properties of harmonize_color (checked under SpecBlend)                 *)
(***************************************************************************)

\* C1: blending is total: for every finite Lab colour and strength in [0,1]
\* the chroma returned by harmonize_color is finite, also when an original
\* chroma channel equals the matched entry's.
C1_BlendTotal ==
    pc = "ret" => IsFinite(harmonized.a) /\ IsFinite(harmonized.b)

\* distance of a blended chroma value from its target (hundredths)
PullDist(x, tgt) == Abs(x.v - tgt)

\* C2: monotonic pull: for a fixed original and target chroma, the blend at
\* the larger strength is at least as close to the target as the blend at any
\* smaller strength (channels that differ from their target, so that every
\* value compared is finite).
C2_MonotonicPull ==
    pc = "ret" =>
        LET tgt == GRUVBOX_LAB[matched]
        IN  \A s1 \in Strengths :
                /\ (s1 <= strength /\ original.a # tgt.a) =>
                       PullDist(harmonized.a, tgt.a)
                           <= PullDist(blend_channel(original.a, tgt.a, s1), tgt.a)
                /\ (s1 <= strength /\ original.b # tgt.b) =>
                       PullDist(harmonized.b, tgt.b)
                           <= PullDist(blend_channel(original.b, tgt.b, s1), tgt.b)

\* C3: identity at zero strength: with strength 0 the chroma returned equals
\* the original chroma (also when a channel already equals the target's) and
\* the lightness is 0.98 * original + 0.02 * target.
C3_IdentityAtZero ==
    (pc = "ret" /\ strength = 0) =>
        /\ harmonized.a = Fin(original.a)
        /\ harmonized.b = Fin(original.b)
        /\ harmonized.l =
               RoundDiv[98 * original.l + 2 * GRUVBOX_LAB[matched].l, 100]

\* C4: nearest match: the selected palette entry minimizes the exact distance
\* to the colour over all 9 entries.
C4_NearestExact ==
    pc = "ret" =>
        \A j \in PaletteIdx :
            DistSq(original, GRUVBOX_LAB[matched]) <= DistSq(original, GRUVBOX_LAB[j])

(***************************************************************************)
(* Properties of enhanced_harmonization (SpecCall, SpecAnyOrder)           *)
(***************************************************************************)

\* the loop has just handled pixel cur and written it
Handled == cur >= 0 /\ pc # "panic"

\* the mask value the loop read for pixel i
MaskAt(i) == At(mask, XOf(img, i), YOf(img, i))

\* C5: edge-mask precondition: a call with a mask whose width or height
\* differs from the buffer's fails before any pixel is modified: it never
\* completes and never rewrites part of the buffer.
C5_MaskPrecondition ==
    (mask # NoMask /\ ~SameSize(mask, img)) =>
        (pc # "harmonized" /\ visited = {})

\* squared distance of an 8-bit pixel, converted to Lab, from palette entry k
OutDistSq(p, k) == DistSq(RgbToLab(p), GRUVBOX_LAB[k])

Black == <<0, 0, 0>>
White == <<255, 255, 255>>

\* harmonization at strength 1.0 without a mask has returned
EndToEndDone == pc = "harmonized" /\ strength = 1000 /\ mask = NoMask

\* the palette entry a black or white input pixel is expected to end near:
\* background (the darkest) for black, foreground (the lightest) for white
ExpectedEntry(p) == IF p = Black THEN 1 ELSE 2

\* C6 (as stated): after harmonizing a buffer of a black and a white pixel at
\* strength 1.0 without a mask, each output pixel converted back to Lab lies
\* within deltaE < 5 of its palette colour (background for black, foreground
\* for white).
C6_EndToEndWithin5 ==
    EndToEndDone =>
        \A i \in Pixels(img) :
            img0.px[i] \in {Black, White} =>
                OutDistSq(img.px[i], ExpectedEntry(img0.px[i])) < 500 * 500

\* C6 (amended): each output pixel has the expected entry as its nearest
\* palette colour (background for black, foreground for white) and lies within
\* deltaE < 30 of it.
C6_EndToEndWithin30 ==
    EndToEndDone =>
        \A i \in Pixels(img) :
            img0.px[i] \in {Black, White} =>
                /\ \A k \in PaletteIdx :
                       OutDistSq(img.px[i], ExpectedEntry(img0.px[i]))
                           <= OutDistSq(img.px[i], k)
                /\ OutDistSq(img.px[i], ExpectedEntry(img0.px[i])) < 3000 * 3000

\* the one-row buffer black, white has been harmonized
C6_Witness ==
    /\ EndToEndDone
    /\ img0.h = 1
    /\ img0.px[0] = Black /\ img0.px[1] = White
    /\ img.px[0] # Black /\ img.px[1] # White

\* C7: edge mask attenuation: for every pixel handled with a mask value m,
\* the final lightness is original * (1 - m/255) + harmonized * m/255 (to the
\* nearest hundredth): the original lightness for m = 0, exactly the lightness
\* of the pipeline without a mask for m = 255; chroma is not affected.
C7_EdgeMaskAttenuation ==
    (Handled /\ mask # NoMask) =>
        /\ MaskAt(cur) = 0 => final.l = original.l
        /\ MaskAt(cur) = 255 =>
               final.l = PixelLocals(img0.px[cur], ClampStrength(strength), -1).final.l
        /\ 2 * Abs(255 * final.l
                   - (original.l * (255 - MaskAt(cur)) + harmonized.l * MaskAt(cur))) <= 255
        /\ final.a = harmonized.a
        /\ final.b = harmonized.b

C7_Witness ==
    /\ Handled /\ mask # NoMask
    /\ MaskAt(cur) = 128
    /\ original.l < harmonized.l
    /\ original.l < final.l /\ final.l < harmonized.l

\* the value enhanced_harmonization stores for input pixel i of the buffer
ExpectedPixel(i) ==
    PixelLocals(img0.px[i], ClampStrength(strength),
                IF mask = NoMask THEN -1 ELSE MaskAt(i)).out

\* C8: per-pixel independence: whatever the order of the visits, every pixel
\* is written at most once, exactly once when the call returns, and a written
\* pixel is the function of its own input value, the strength and the mask
\* value at its coordinate; unvisited pixels are untouched.
C8_PerPixelIndependence ==
    /\ \A i \in Pixels(img) :
           /\ writes[i] = (IF i \in visited THEN 1 ELSE 0)
           /\ img.px[i] = (IF i \in visited THEN ExpectedPixel(i) ELSE img0.px[i])
    /\ pc = "harmonized" => visited = Pixels(img)

\* a run that visited pixel 0 last, and changed the buffer
C8_Witness ==
    /\ pc = "harmonized"
    /\ NumPixels(img) >= 2
    /\ cur = 0
    /\ img.px[0] # img0.px[0]
    /\ img.px[1] # img0.px[1]

\* C9: clamping: each stored channel is the Lab-to-sRGB result times 1.08,
\* clamped: it lies in 0..255, is 255 when the boosted value reaches the top
\* of the range, 0 when it is not positive (or NaN), and otherwise the boosted
\* value scaled to 0..255 (within one unit).
C9_Clamping ==
    /\ \A i \in Pixels(img) : \A c \in 1..3 : img.px[i][c] \in 0..255
    /\ Handled =>
           \A c \in 1..3 :
               /\ ~IsFinite(result_rgb[c]) => img.px[cur][c] = 0
               /\ (IsFinite(result_rgb[c]) /\ result_rgb[c].v <= 0) => img.px[cur][c] = 0
               /\ (IsFinite(result_rgb[c]) /\ 27 * result_rgb[c].v >= 25 * FX) =>
                      img.px[cur][c] = 255
               /\ (IsFinite(result_rgb[c]) /\ result_rgb[c].v > 0
                      /\ 27 * result_rgb[c].v < 25 * FX) =>
                      Abs(img.px[cur][c] - ((result_rgb[c].v \div 1000) * 2754) \div 10000) <= 1

\* a channel whose boosted value exceeds the range, stored as 255
C9_Witness ==
    /\ Handled
    /\ \E c \in 1..3 :
           /\ IsFinite(result_rgb[c])
           /\ result_rgb[c].v < FX
           /\ 27 * result_rgb[c].v > 25 * FX
           /\ img.px[cur][c] = 255

(***************************************************************************)
(* Properties of apply_style (Spec)                                        *)
(***************************************************************************)

\* apply_style has returned
Returned == pc = "harmonized" /\ NextStage = "return"

IsPrefix(a, b) == Len(a) <= Len(b) /\ \A k \in 1..Len(a) : a[k] = b[k]

\* the post-effects listed for each style, in order
ListedEffects(name) ==
    CASE name = "Gruvbox" -> <<>>
      [] name = "Retro" -> <<"add_vhs_effect", "add_film_grain">>
      [] name = "Synthwave" -> <<"apply_gradient_overlay", "boost_saturation">>
      [] name = "Mosaic" -> <<"pixelate">>
      [] name = "Watercolor" -> <<"apply_watercolor_effect">>

ListedStages(name) ==
    (IF name \in {"Gruvbox", "Retro"} THEN <<"edge_mask">> ELSE <<>>)
        \o <<"enhanced_harmonization">> \o ListedEffects(name)

HarmonizationStarted == \E k \in 1..Len(log) : log[k] = "enhanced_harmonization"

PostEffectRun == \E k \in 1..Len(log) : log[k] \notin {"edge_mask", "enhanced_harmonization"}

\* C10: stage ordering in apply_style: the stages run are, in order, the edge
\* mask (Gruvbox and Retro only), harmonization once, then exactly the
\* post-effects listed for the style; the edge mask handed to harmonization is
\* that of the unmodified buffer; the buffer is not modified before
\* harmonization starts and no post-effect runs before harmonization is over.
C10_StageOrdering ==
    /\ IsPrefix(log, ListedStages(style.name))
    /\ Returned => log = ListedStages(style.name)
    /\ \A i \in Pixels(img0) : writes[i] <= 1
    /\ ~HarmonizationStarted => (img = img0 /\ visited = {})
    /\ (pc = "harmonize" /\ visited = {}) =>
           /\ img = img0
           /\ mask = (IF style.name \in {"Gruvbox", "Retro"}
                      THEN EdgeMask(img0, style) ELSE NoMask)
    /\ PostEffectRun => (pc = "harmonized" /\ \A i \in Pixels(img0) : writes[i] = 1)

\* a Retro run that has returned after its four stages
C10_Witness ==
    /\ Returned
    /\ style.name = "Retro"
    /\ Len(log) = 4
    /\ img # img0

====
